---- MODULE Spec2Model ----
(***************************************************************************)
(* Model of the Fobnail attestation client (src/src/client/mod.rs).        *)
(*                                                                         *)
(* The protocol state lives in an Rc<RefCell<State>> shared between        *)
(* FobnailClient::poll and the response callbacks queued in the CoAP       *)
(* client.  poll() first polls the transport (which runs the callbacks of  *)
(* the requests whose result is ready), then borrows the state cell and    *)
(* runs one arm of the state machine.  A panic of the firmware is recorded *)
(* in the variable panic; nothing runs afterwards.                         *)
(***************************************************************************)
EXTENDS Integers, Sequences, FiniteSets, TLC

VARIABLES
    state,           \* contents of the RefCell<State>
    state_borrowed,  \* TRUE while poll() holds state.borrow_mut()
    pc,              \* position of the driver inside poll(): index in PollOrder
    requests,        \* CoapClient: queued requests with their callbacks, oldest first
    now,             \* pal::timer::get_time_ms()
    store,           \* the files under /meta/ in the Trussed filesystem: [name, data]
    panic,           \* "none", or the panic that stopped the firmware
    aik_drop,        \* Trussed borrow at the latest drop of an AIK key handle:
                     \* "none" (no drop yet), "released", "borrowed"
    last,            \* the latest handler that ran: [op, from, res, queued, wrote]
    verified,        \* digests of the metadata that passed both checks since the last Idle
    call,            \* a function of the client called on its own: [fn, arg]
    ret,             \* None until that call has returned, then Some(its result)
    issued,          \* the paths of the requests queued since the state was last Idle
    pal              \* pal_nrf: TIMER0_N, TIMER0_LAST, the clock and the main thread

vars == <<state, state_borrowed, pc, requests, now, store, panic, aik_drop, last, verified,
          call, ret, issued, pal>>

(***************************************************************************)
(* Bounds of the model.                                                    *)
(***************************************************************************)
MaxTime == 13000
MaxQueue == 3

(***************************************************************************)
(* Option<T>: None is the empty set, Some(x) the singleton.                *)
(***************************************************************************)
None == {}
Some(x) == {x}
Unwrap(o) == CHOOSE x \in o : TRUE

(***************************************************************************)
(* Retry delays, in milliseconds.                                          *)
(***************************************************************************)
RETRY_TRANSPORT_MS == 1000
RETRY_MS == 5000

(***************************************************************************)
(* coap_lite::ResponseType, as classified by handle_server_error_response. *)
(***************************************************************************)
SuccessCodes == {"Created", "Deleted", "Valid", "Changed", "Content", "Continue"}

ClientErrorCodes ==
    {"BadRequest", "Unauthorized", "BadOption", "Forbidden", "NotFound",
     "MethodNotAllowed", "NotAcceptable", "Conflict", "PreconditionFailed",
     "RequestEntityTooLarge", "UnsupportedContentFormat",
     "RequestEntityIncomplete", "UnprocessableEntity", "TooManyRequests"}

ServerErrorCodes ==
    {"InternalServerError", "NotImplemented", "BadGateway", "ServiceUnavailable",
     "GatewayTimeout", "ProxyingNotSupported", "HopLimitReached"}

ErrorCodes == ClientErrorCodes \cup ServerErrorCodes \cup {"UnKnown"}

ResponseCodes == SuccessCodes \cup ErrorCodes

(***************************************************************************)
(* Keys, certificates and payloads.  A payload is described by what the    *)
(* decoders of the client extract from its bytes.                          *)
(***************************************************************************)
\* crypto::Key: an RSA public key or a handle of a key kept in Trussed
Keys == {[kind |-> "Rsa", id |-> 1], [kind |-> "Ed25519", id |-> 2]}

\* X509Certificate: do issuer() and subject() succeed, what key() returns
\* ("Rsa": a key RsaKey::load accepts, "RsaInvalid": one it rejects, "Err":
\* key() fails), does CertMgr::verify accept the chain
Cert(i, s, k, t) == [issuer |-> i, subject |-> s, key |-> k, trusted |-> t]

Certs ==
    {Cert(TRUE, TRUE, "Rsa", TRUE), Cert(FALSE, TRUE, "Rsa", TRUE),
     Cert(TRUE, FALSE, "Rsa", TRUE), Cert(TRUE, TRUE, "Err", TRUE),
     Cert(TRUE, TRUE, "Rsa", FALSE), Cert(TRUE, TRUE, "RsaInvalid", TRUE)}

\* proto::HashType
HashTypes == {"SHA1", "SHA256", "SHA512"}

\* proto::Metadata: version and ek_hash{id, hash}; mac and sn are only logged
Meta(v, id, len) == [version |-> v, ek_hash |-> [id |-> id, len |-> len]]

\* encoded_metadata: a name for the bytes, whether they fit a Trussed
\* message buffer, and the Metadata they decode to (None: CBOR error)
Encoded(n, f, m) == [name |-> n, fits |-> f, meta |-> m]

EncodedMetas ==
    {Encoded(1, TRUE, Some(Meta(1, "SHA256", 32))),
     Encoded(2, TRUE, Some(Meta(2, "SHA256", 32))),
     Encoded(3, TRUE, Some(Meta(1, "SHA256", 20))),
     Encoded(4, TRUE, None),
     Encoded(5, FALSE, Some(Meta(1, "SHA1", 20)))}

\* signature: its length in bytes and the key that made it over the
\* encoded_metadata of the same envelope (0: nobody's signature)
Sig(len, by) == [len |-> len, by |-> by]

Signatures == {Sig(64, 2), Sig(256, 1), Sig(64, 0), Sig(129, 2)}

TextPayloads == {[kind |-> "text", utf8 |-> b] : b \in BOOLEAN}
CertPayloads == {[kind |-> "cert", cert |-> c] : c \in Certs}
AikPayloads == {[kind |-> "aik", loaded_key_name |-> n] : n \in {"sha256", "other"}}
MetaPayloads ==
    {[kind |-> "meta", encoded_metadata |-> e, signature |-> s] :
        e \in EncodedMetas, s \in Signatures}

Payloads == TextPayloads \cup CertPayloads \cup AikPayloads \cup MetaPayloads

EmptyPayload == [kind |-> "text", utf8 |-> TRUE]

(***************************************************************************)
(* Result<Packet, Error> handed to a callback.  The payload of a packet is *)
(* read only when its code is Content.                                     *)
(***************************************************************************)
Ok(code, payload) == [ok |-> TRUE, code |-> code, payload |-> payload]
Err(e) == [ok |-> FALSE, error |-> e]

TransportErrors == {"Timeout", "ProtocolError"}

Results ==
    {Err(e) : e \in TransportErrors}
    \cup {Ok("Content", p) : p \in Payloads}
    \cup {Ok(c, EmptyPayload) : c \in ResponseCodes \ {"Content"}}

(***************************************************************************)
(* State: the variants of the attestation state.                           *)
(***************************************************************************)
Idle(timeout) == [tag |-> "Idle", timeout |-> timeout]
StInit(pending) == [tag |-> "Init", request_pending |-> pending]
InitDataReceived(data) == [tag |-> "InitDataReceived", data |-> data]
RequestEkCert(pending) == [tag |-> "RequestEkCert", request_pending |-> pending]
VerifyEkCertificate(data) == [tag |-> "VerifyEkCertificate", data |-> data]
RequestAik(pending, ek_cert) ==
    [tag |-> "RequestAik", request_pending |-> pending, ek_cert |-> ek_cert]
VerifyAikStage1(data, ek_cert) ==
    [tag |-> "VerifyAikStage1", data |-> data, ek_cert |-> ek_cert]
RequestMetadata(pending, aik_pubkey) ==
    [tag |-> "RequestMetadata", request_pending |-> pending, aik_pubkey |-> aik_pubkey]
VerifyMetadata(metadata, aik_pubkey) ==
    [tag |-> "VerifyMetadata", metadata |-> metadata, aik_pubkey |-> aik_pubkey]
StoreMetadata(metadata, hash) ==
    [tag |-> "StoreMetadata", metadata |-> metadata, hash |-> hash]

RequestStates == {"Init", "RequestEkCert", "RequestAik", "RequestMetadata"}
NoRequestStates ==
    {"Idle", "InitDataReceived", "VerifyEkCertificate", "VerifyMetadata",
     "StoreMetadata", "VerifyAikStage1"}
StateTags == RequestStates \cup NoRequestStates

\* State::default()
StateDefault == StInit(FALSE)

\* the states that hold the Rc<crypto::Key> of the AIK
HoldsAik(st) == st.tag \in {"RequestMetadata", "VerifyMetadata"}

(***************************************************************************)
(* What a handler leaves behind: the new contents of the state cell, the   *)
(* panic it raised ("none" if it returned) and, when it dropped the AIK    *)
(* key, whether the Trussed client was borrowed at that moment.            *)
(***************************************************************************)
Outcome(st, p, d) == [state |-> st, panic |-> p, drop |-> d]

\* *state = new.  The old value is dropped; when it held the last Rc of an
\* AIK key that is a Trussed key handle, the destructor of the key runs and
\* borrows the Trussed client to delete the key from the keystore.
Assign(old, new, trussed_borrowed) ==
    IF HoldsAik(old) /\ ~HoldsAik(new) /\ old.aik_pubkey.kind = "Ed25519"
    THEN IF trussed_borrowed
         THEN Outcome(old, "BorrowMutError(trussed)", "borrowed")
         ELSE Outcome(new, "none", "released")
    ELSE Outcome(new, "none", "none")

(***************************************************************************)
(* The response callbacks.  cell_borrowed is the borrow flag of the state  *)
(* cell when the callback runs, t the clock.                               *)
(***************************************************************************)
\* variant of handle_coap_error: the retry delay of a server error
handle_coap_error_Retry5s(error, st, t, cell_borrowed) ==
    IF cell_borrowed THEN Outcome(st, "BorrowMutError(state)", "none")
    ELSE IF st.tag \in {"Init", "RequestMetadata", "RequestAik", "RequestEkCert"}
         THEN Assign(st, Idle(Some(t + RETRY_MS)), FALSE)
         ELSE Outcome(st, "unreachable", "none")

handle_coap_error(error, st, t, cell_borrowed) ==
    IF cell_borrowed THEN Outcome(st, "BorrowMutError(state)", "none")
    ELSE IF st.tag \in {"Init", "RequestMetadata", "RequestAik", "RequestEkCert"}
         THEN Assign(st, Idle(Some(t + RETRY_TRANSPORT_MS)), FALSE)
         ELSE Outcome(st, "unreachable", "none")

\* variant of handle_server_error_response: the retry delay of a transport error
handle_server_error_response_Retry1s(result, st, t, cell_borrowed) ==
    IF result.code \in {"Created", "Deleted", "Valid", "Changed", "Content", "Continue"}
    THEN [ret |-> FALSE, out |-> Outcome(st, "none", "none")]
    ELSE [ret |-> TRUE,
          out |-> IF cell_borrowed THEN Outcome(st, "BorrowMutError(state)", "none")
                  ELSE IF st.tag \in {"Init", "RequestEkCert", "RequestAik",
                                      "VerifyAikStage1", "RequestMetadata"}
                       THEN Assign(st, Idle(Some(t + RETRY_TRANSPORT_MS)), FALSE)
                       ELSE Outcome(st, "unreachable", "none")]

\* returns the outcome and ret, the boolean the function returns
handle_server_error_response(result, st, t, cell_borrowed) ==
    IF result.code \in {"Created", "Deleted", "Valid", "Changed", "Content", "Continue"}
    THEN [ret |-> FALSE, out |-> Outcome(st, "none", "none")]
    ELSE [ret |-> TRUE,
          out |-> IF cell_borrowed THEN Outcome(st, "BorrowMutError(state)", "none")
                  ELSE IF st.tag \in {"Init", "RequestEkCert", "RequestAik",
                                      "VerifyAikStage1", "RequestMetadata"}
                       THEN Assign(st, Idle(Some(t + RETRY_MS)), FALSE)
                       ELSE Outcome(st, "unreachable", "none")]

\* variant of handle_server_response: every 2.xx code is taken as Content
handle_server_response_AnySuccess(result, st, t, cell_borrowed) ==
    LET e == handle_server_error_response(result, st, t, cell_borrowed)
        content == TRUE
        retry == Idle(Some(t + RETRY_MS))
    IN  IF e.ret THEN e.out
        ELSE IF cell_borrowed THEN Outcome(st, "BorrowMutError(state)", "none")
        ELSE CASE st.tag = "Init" ->
                    Assign(st, IF content THEN InitDataReceived(result.payload) ELSE retry, FALSE)
               [] st.tag = "RequestEkCert" ->
                    Assign(st, IF content THEN VerifyEkCertificate(result.payload) ELSE retry, FALSE)
               [] st.tag = "RequestAik" ->
                    IF content
                    THEN IF st.ek_cert = None
                         THEN Outcome(st, "unwrap", "none")
                         ELSE Assign(st, VerifyAikStage1(result.payload, Unwrap(st.ek_cert)), FALSE)
                    ELSE Assign(st, retry, FALSE)
               [] st.tag = "VerifyAikStage1" -> Outcome(st, "todo", "none")
               [] st.tag = "RequestMetadata" ->
                    Assign(st, IF content THEN VerifyMetadata(result.payload, st.aik_pubkey)
                               ELSE retry, FALSE)
               [] OTHER -> Outcome(st, "unreachable", "none")

handle_server_response(result, st, t, cell_borrowed) ==
    LET e == handle_server_error_response(result, st, t, cell_borrowed)
        content == result.code = "Content"
        retry == Idle(Some(t + RETRY_MS))
    IN  IF e.ret THEN e.out
        ELSE IF cell_borrowed THEN Outcome(st, "BorrowMutError(state)", "none")
        ELSE CASE st.tag = "Init" ->
                    Assign(st, IF content THEN InitDataReceived(result.payload) ELSE retry, FALSE)
               [] st.tag = "RequestEkCert" ->
                    Assign(st, IF content THEN VerifyEkCertificate(result.payload) ELSE retry, FALSE)
               [] st.tag = "RequestAik" ->
                    IF content
                    THEN IF st.ek_cert = None
                         THEN Outcome(st, "unwrap", "none")
                         ELSE Assign(st, VerifyAikStage1(result.payload, Unwrap(st.ek_cert)), FALSE)
                    ELSE Assign(st, retry, FALSE)
               [] st.tag = "VerifyAikStage1" -> Outcome(st, "todo", "none")
               [] st.tag = "RequestMetadata" ->
                    Assign(st, IF content THEN VerifyMetadata(result.payload, st.aik_pubkey)
                               ELSE retry, FALSE)
               [] OTHER -> Outcome(st, "unreachable", "none")

handle_response(result, st, t, cell_borrowed) ==
    IF result.ok THEN handle_server_response(result, st, t, cell_borrowed)
    ELSE handle_coap_error(result.error, st, t, cell_borrowed)

\* the class of a result, as recorded in last
ResultClass(result) ==
    IF ~result.ok THEN "transport"
    ELSE IF result.code \in ErrorCodes THEN "server_error"
    ELSE IF result.code = "Content" THEN "content"
    ELSE "success_other"

(***************************************************************************)
(* Digests and the names of the files of the /meta/ directory.             *)
(***************************************************************************)
SHA256_LEN == 32

\* the SHA-256 digest Trussed computes for encoded_metadata e: 32 bytes
\* that differ between the encoded metadata of the model
Sha256(e) == [i \in 1..SHA256_LEN |-> (e.name * 37 + i * 11) % 256]

HexDigits == <<"0", "1", "2", "3", "4", "5", "6", "7",
               "8", "9", "a", "b", "c", "d", "e", "f">>

\* variant of Hex02: no leading zero, as "{:x}" prints
Hex02_NoPadding(x) ==
    IF x < 16 THEN HexDigits[x + 1]
    ELSE HexDigits[(x \div 16) + 1] \o HexDigits[(x % 16) + 1]

\* write!(f, "{:02x}", x)
Hex02(x) == HexDigits[(x \div 16) + 1] \o HexDigits[(x % 16) + 1]

RECURSIVE format_hash(_)
format_hash(hash) ==
    IF hash = <<>> THEN "" ELSE Hex02(Head(hash)) \o format_hash(Tail(hash))

\* a file of /meta/: its name inside the directory and its bytes
File(name, data) == [name |-> name, data |-> data]

Names(files) == {f.name : f \in files}

\* locate_file finds a file of that name
have_metadata_hash(files, hash) == \E f \in files : f.name = format_hash(hash)

\* variant of store_metadata_hash: the new file replaces the directory
store_metadata_hash_Replace(files, hash) == {File(format_hash(hash), <<>>)}

\* write_file creates the file or replaces its contents with Message::new()
store_metadata_hash(files, hash) ==
    {f \in files : f.name # format_hash(hash)} \cup {File(format_hash(hash), <<>>)}

(***************************************************************************)
(* Verification of the EK certificate, the AIK and the metadata.           *)
(***************************************************************************)
\* CertMgr::load_cert_owned: the certificate of a payload that parses as one
load_cert_owned(data) == IF data.kind = "cert" THEN Some(data.cert) ELSE None

\* variant of verify_ek_certificate: the certificate manager is not asked
verify_ek_certificate_NoCertMgr(cert) ==
    /\ cert.issuer
    /\ cert.subject
    /\ cert.key # "Err"

verify_ek_certificate(cert) ==
    /\ cert.issuer
    /\ cert.subject
    /\ cert.key # "Err"
    /\ cert.trusted

\* "Ok", "Err" or the panic raised; secret_ok and seed_ok tell whether the
\* two random_bytes syscalls succeed
make_credential_rsa(loaded_key_name, block_size, seed_ok) ==
    IF ~seed_ok THEN "Err" ELSE "todo"

prepare_aik_challenge(data, ek_cert, secret_ok, seed_ok) ==
    IF data.kind # "aik" THEN "Err"
    ELSE IF ~secret_ok THEN "Err"
    ELSE IF ek_cert.key = "Err" THEN "Err"
    ELSE IF ek_cert.key = "RsaInvalid" THEN "Err"
    ELSE LET r == make_credential_rsa(data.loaded_key_name, 16, seed_ok)
         IN  IF r = "Err" THEN "unwrap" ELSE r

(***************************************************************************)
(* tpm.rs: the name of a loaded TPM key, a 2-byte big-endian algorithm id  *)
(* followed by the digest.  A byte string is a sequence of 0..255.         *)
(***************************************************************************)
\* variant of LoadedKeyName_decode: the length of the whole input is compared
LoadedKeyName_decode_WholeLength(data) ==
    IF Len(data) < 2 THEN None
    ELSE LET algorithm == data[1] * 256 + data[2]
         IN  IF algorithm = 11
             THEN LET hash == SubSeq(data, 3, Len(data))
                  IN  IF Len(data) # 32 THEN None
                      ELSE Some([algorithm |-> "Sha256", hash |-> hash])
             ELSE None

\* LoadedKeyName::decode
LoadedKeyName_decode(data) ==
    IF Len(data) < 2 THEN None
    ELSE LET algorithm == data[1] * 256 + data[2]
         IN  IF algorithm = 11
             THEN LET hash == SubSeq(data, 3, Len(data))
                  IN  IF Len(hash) # 32 THEN None
                      ELSE Some([algorithm |-> "Sha256", hash |-> hash])
             ELSE None

\* trussed::config::MAX_SIGNATURE_LENGTH
MAX_SIGNATURE_LENGTH == 128

\* proto::CURRENT_VERSION
CURRENT_VERSION == 1

\* the calls to the secure element: verify_ed255 with the length of the
\* signature it is given, and the SHA-256 of encoded_metadata
VerifyCall(sig) == [op |-> "verify_ed255", sig_len |-> sig.len]
HashCall == [op |-> "hash"]

\* what do_verify_metadata_signature returns ("Ok", "Err", or the panic
\* raised) and the calls it made to the secure element, in order
SigResult(res, meta, hash, calls) ==
    [res |-> res, meta |-> meta, hash |-> hash, calls |-> calls]
SigErr(calls) == SigResult("Err", None, <<>>, calls)

\* variant of do_verify_metadata_signature: the length of an Ed25519
\* signature is not checked
do_verify_metadata_signature_NoLengthCheck(metadata, key, verify_ok, hash_ok) ==
    IF metadata.kind # "meta" THEN SigErr(<<>>)
    ELSE LET enc == metadata.encoded_metadata
             sig == metadata.signature
         IN  IF key.kind = "Ed25519"
             THEN IF ~verify_ok THEN SigErr(<<VerifyCall(sig)>>)
                  ELSE IF sig.by # key.id THEN SigErr(<<VerifyCall(sig)>>)
                  ELSE IF ~hash_ok THEN SigErr(<<VerifyCall(sig), HashCall>>)
                  ELSE IF enc.meta = None THEN SigErr(<<VerifyCall(sig), HashCall>>)
                  ELSE SigResult("Ok", Unwrap(enc.meta), Sha256(enc),
                                 <<VerifyCall(sig), HashCall>>)
             ELSE IF ~enc.fits THEN SigResult("unwrap", None, <<>>, <<>>)
                  ELSE IF ~hash_ok THEN SigErr(<<HashCall>>)
                  ELSE IF sig.by # key.id THEN SigErr(<<HashCall>>)
                  ELSE IF enc.meta = None THEN SigErr(<<HashCall>>)
                  ELSE SigResult("Ok", Unwrap(enc.meta), Sha256(enc), <<HashCall>>)

\* verify_ok and hash_ok tell whether the Trussed syscalls succeed
do_verify_metadata_signature(metadata, key, verify_ok, hash_ok) ==
    IF metadata.kind # "meta" THEN SigErr(<<>>)
    ELSE LET enc == metadata.encoded_metadata
             sig == metadata.signature
         IN  IF key.kind = "Ed25519"
             THEN IF sig.len > MAX_SIGNATURE_LENGTH THEN SigErr(<<>>)
                  ELSE IF ~verify_ok THEN SigErr(<<VerifyCall(sig)>>)
                  ELSE IF sig.by # key.id THEN SigErr(<<VerifyCall(sig)>>)
                  ELSE IF ~hash_ok THEN SigErr(<<VerifyCall(sig), HashCall>>)
                  ELSE IF enc.meta = None THEN SigErr(<<VerifyCall(sig), HashCall>>)
                  ELSE SigResult("Ok", Unwrap(enc.meta), Sha256(enc),
                                 <<VerifyCall(sig), HashCall>>)
             ELSE IF ~enc.fits THEN SigResult("unwrap", None, <<>>, <<>>)
                  ELSE IF ~hash_ok THEN SigErr(<<HashCall>>)
                  ELSE IF sig.by # key.id THEN SigErr(<<HashCall>>)
                  ELSE IF enc.meta = None THEN SigErr(<<HashCall>>)
                  ELSE SigResult("Ok", Unwrap(enc.meta), Sha256(enc), <<HashCall>>)

\* variant of do_verify_metadata: a SHA512 digest is expected to be 32 bytes long
do_verify_metadata_Sha512Short(metadata) ==
    IF metadata.version # CURRENT_VERSION THEN FALSE
    ELSE LET expected_hash_len ==
                 CASE metadata.ek_hash.id = "SHA1" -> 20
                   [] metadata.ek_hash.id = "SHA256" -> 32
                   [] metadata.ek_hash.id = "SHA512" -> 32
         IN  metadata.ek_hash.len = expected_hash_len

do_verify_metadata(metadata) ==
    IF metadata.version # CURRENT_VERSION THEN FALSE
    ELSE LET expected_hash_len ==
                 CASE metadata.ek_hash.id = "SHA1" -> 20
                   [] metadata.ek_hash.id = "SHA256" -> 32
                   [] metadata.ek_hash.id = "SHA512" -> 64
         IN  metadata.ek_hash.len = expected_hash_len

(***************************************************************************)
(* token_provisioning/csr.rs: the certificate signing request of the       *)
(* token.  device_id is a u64, given as its 16 hexadecimal digits (each    *)
(* 0..15), most significant first; an RSA key is given by the bit lengths  *)
(* of its modulus and of its public exponent.                              *)
(***************************************************************************)
UpperHexDigits == <<"0", "1", "2", "3", "4", "5", "6", "7",
                    "8", "9", "A", "B", "C", "D", "E", "F">>

RECURSIVE UpperHex(_)
UpperHex(digits) ==
    IF digits = <<>> THEN ""
    ELSE UpperHexDigits[Head(digits) + 1] \o UpperHex(Tail(digits))

\* the digits from the first one that is not 0, or the last digit alone
RECURSIVE Significant(_)
Significant(digits) ==
    IF Len(digits) > 1 /\ Head(digits) = 0 THEN Significant(Tail(digits)) ELSE digits

\* variant of format_device_id: all 16 digits are printed, as "{:016X}" does
format_device_id_Padded(device_id) == UpperHex(device_id)

\* format!("{:X}", device_id)
format_device_id(device_id) == UpperHex(Significant(device_id))

\* one AttributeTypeAndValue
Attribute(oid, tag, value) == [oid |-> oid, tag |-> tag, value |-> value]

\* the length buf is resized to
csr_buffer_len(key) == (key.n_bits \div 8) * 2 + (key.e_bits \div 8) + 128

\* what make_csr returns ("Ok", "Err", or the panic raised), the request it
\* encoded (None unless "Ok") and the length of the working buffer
CsrResult(res, csr, buf_len) == [res |-> res, csr |-> csr, buf_len |-> buf_len]

\* pub_ok, info_ok, sign_ok and final_ok tell whether the encoding of the
\* public key, the encoding of the CertReqInfo, the signature and the
\* encoding of the CertReq succeed
make_csr(key, device_id, pub_ok, info_ok, sign_ok, final_ok) ==
    LET device_id_str == format_device_id(device_id)
        organization == Attribute("organizationName", "Utf8String", "Fobnail")
        serial_number == Attribute("serialNumber", "PrintableString", device_id_str)
        buf_len == csr_buffer_len(key)
        subject == <<{organization}, {serial_number}>>
        info == [version |-> "V1", subject |-> subject, public_key |-> key]
    IN  IF ~pub_ok THEN CsrResult("Err", None, 0)
        ELSE IF ~info_ok \/ ~sign_ok THEN CsrResult("Err", None, buf_len)
        ELSE IF ~final_ok THEN CsrResult("unwrap", None, buf_len)
        ELSE CsrResult("Ok", Some([info |-> info, signature_len |-> (key.n_bits + 7) \div 8]),
                       buf_len)

(***************************************************************************)
(* The arms of the match in FobnailClient::poll.  Each returns the outcome *)
(* of the arm, the path of the request it queued (None: no request) and    *)
(* whether it wrote a file to /meta/.                                      *)
(***************************************************************************)
ArmOut(o, q) == [out |-> o, queued |-> q, wrote |-> FALSE]

Stay(st) == Outcome(st, "none", "none")

\* variant of poll_Idle: the cycle resumes at the EK certificate request
poll_Idle_ResumeAtEk(st, t) ==
    ArmOut(IF st.timeout # None /\ t > Unwrap(st.timeout)
           THEN Assign(st, RequestEkCert(FALSE), FALSE)
           ELSE Stay(st),
           None)

\* variant of poll_Idle: the state is left when the clock reaches the deadline
poll_Idle_AtDeadline(st, t) ==
    ArmOut(IF st.timeout # None /\ t >= Unwrap(st.timeout)
           THEN Assign(st, StateDefault, FALSE)
           ELSE Stay(st),
           None)

poll_Idle(st, t) ==
    ArmOut(IF st.timeout # None /\ t > Unwrap(st.timeout)
           THEN Assign(st, StateDefault, FALSE)
           ELSE Stay(st),
           None)

poll_Init(st) ==
    IF ~st.request_pending
    THEN ArmOut(Stay([st EXCEPT !.request_pending = TRUE]), Some("/attest"))
    ELSE ArmOut(Stay(st), None)

\* variant of poll_InitDataReceived: the EK certificate is not requested
poll_InitDataReceived_SkipEk(st) ==
    ArmOut(Assign(st, RequestAik(FALSE, None), FALSE), None)

poll_InitDataReceived(st) ==
    ArmOut(Assign(st, RequestEkCert(FALSE), FALSE), None)

poll_RequestEkCert(st) ==
    IF ~st.request_pending
    THEN ArmOut(Stay([st EXCEPT !.request_pending = TRUE]), Some("/ek"))
    ELSE ArmOut(Stay(st), None)

\* variant of poll_VerifyEkCertificate: the verified certificate is not kept
poll_VerifyEkCertificate_DropCert(st, t) ==
    LET loaded == load_cert_owned(st.data)
        cert == IF loaded # None /\ verify_ek_certificate(Unwrap(loaded))
                THEN loaded ELSE None
    IN  ArmOut(IF cert # None
               THEN Assign(st, RequestAik(FALSE, None), TRUE)
               ELSE Assign(st, Idle(Some(t + RETRY_MS)), TRUE),
               None)

\* variant of poll_VerifyEkCertificate: a rejected certificate is retried
\* after the transport delay
poll_VerifyEkCertificate_Retry1s(st, t) ==
    LET loaded == load_cert_owned(st.data)
        cert == IF loaded # None /\ verify_ek_certificate(Unwrap(loaded))
                THEN loaded ELSE None
    IN  ArmOut(IF cert # None
               THEN Assign(st, RequestAik(FALSE, Some(Unwrap(cert))), TRUE)
               ELSE Assign(st, Idle(Some(t + RETRY_TRANSPORT_MS)), TRUE),
               None)

poll_VerifyEkCertificate(st, t) ==
    LET loaded == load_cert_owned(st.data)
        cert == IF loaded # None /\ verify_ek_certificate(Unwrap(loaded))
                THEN loaded ELSE None
    IN  ArmOut(IF cert # None
               THEN Assign(st, RequestAik(FALSE, Some(Unwrap(cert))), TRUE)
               ELSE Assign(st, Idle(Some(t + RETRY_MS)), TRUE),
               None)

\* variant of poll_RequestAik: request_pending is not set
poll_RequestAik_NoPending(st) ==
    IF ~st.request_pending
    THEN ArmOut(Stay(st), Some("/aik"))
    ELSE ArmOut(Stay(st), None)

poll_RequestAik(st) ==
    IF ~st.request_pending
    THEN ArmOut(Stay([st EXCEPT !.request_pending = TRUE]), Some("/aik"))
    ELSE ArmOut(Stay(st), None)

\* variant of poll_VerifyAikStage1: the challenge is prepared without a
\* panic and the arm moves on to RequestMetadata with the key of the attester
poll_VerifyAikStage1_ToMetadata(st, t, secret_ok, seed_ok) ==
    LET r == prepare_aik_challenge(st.data, st.ek_cert, secret_ok, seed_ok)
    IN  ArmOut(CASE r = "Err" -> Assign(st, Idle(Some(t + RETRY_MS)), TRUE)
                 [] OTHER -> Assign(st, RequestMetadata(FALSE, [kind |-> "Rsa", id |-> 1]),
                                    TRUE),
               None)

poll_VerifyAikStage1(st, t, secret_ok, seed_ok) ==
    LET r == prepare_aik_challenge(st.data, st.ek_cert, secret_ok, seed_ok)
    IN  ArmOut(CASE r = "Ok" -> Outcome(st, "unimplemented", "none")
                 [] r = "Err" -> Assign(st, Idle(Some(t + RETRY_MS)), TRUE)
                 [] OTHER -> Outcome(st, r, "none"),
               None)

poll_RequestMetadata(st) ==
    IF ~st.request_pending
    THEN ArmOut(Stay([st EXCEPT !.request_pending = TRUE]), Some("/metadata"))
    ELSE ArmOut(Stay(st), None)

\* variant of poll_VerifyMetadata: the content of the metadata is not validated
poll_VerifyMetadata_NoContentCheck(st, t, verify_ok, hash_ok) ==
    LET r == do_verify_metadata_signature(st.metadata, st.aik_pubkey, verify_ok, hash_ok)
    IN  ArmOut(CASE r.res = "Ok" -> Assign(st, StoreMetadata(r.meta, r.hash), FALSE)
                 [] r.res = "Err" -> Assign(st, Idle(Some(t + RETRY_MS)), TRUE)
                 [] OTHER -> Outcome(st, r.res, "none"),
               None)

poll_VerifyMetadata(st, t, verify_ok, hash_ok) ==
    LET r == do_verify_metadata_signature(st.metadata, st.aik_pubkey, verify_ok, hash_ok)
    IN  ArmOut(CASE r.res = "Ok" ->
                      \* drop(trussed) comes before the assignment
                      IF do_verify_metadata(r.meta)
                      THEN Assign(st, StoreMetadata(r.meta, r.hash), FALSE)
                      ELSE Assign(st, Idle(Some(t + RETRY_MS)), FALSE)
                 [] r.res = "Err" -> Assign(st, Idle(Some(t + RETRY_MS)), TRUE)
                 [] OTHER -> Outcome(st, r.res, "none"),
               None)

\* variant of poll_StoreMetadata: the file is written without looking it up
poll_StoreMetadata_AlwaysWrite(st, t, files) ==
    IF Len(st.hash) # SHA256_LEN
    THEN [out |-> Outcome(st, "expect", "none"), queued |-> None,
          wrote |-> FALSE, files |-> files]
    ELSE [out |-> Assign(st, Idle(Some(t + RETRY_MS)), TRUE),
          queued |-> None,
          wrote |-> TRUE,
          files |-> store_metadata_hash(files, st.hash)]

\* returns also the files of /meta/ after the arm
poll_StoreMetadata(st, t, files) ==
    IF Len(st.hash) # SHA256_LEN
    THEN [out |-> Outcome(st, "expect", "none"), queued |-> None,
          wrote |-> FALSE, files |-> files]
    ELSE [out |-> Assign(st, Idle(Some(t + RETRY_MS)), TRUE),
          queued |-> None,
          wrote |-> ~have_metadata_hash(files, st.hash),
          files |-> IF ~have_metadata_hash(files, st.hash)
                    THEN store_metadata_hash(files, st.hash)
                    ELSE files]

(***************************************************************************)
(* CoapClient: the queue of requests and the delivery of their results.    *)
(***************************************************************************)
Request(path) == [path |-> path, result |-> None]

queue_request(queue, path) == Append(queue, Request(path))

\* CoapClient::poll: every request whose result is ready leaves the queue
\* and its callback runs once, oldest first; acc carries the state cell
\* through the callbacks and collects the requests left in the queue
RECURSIVE RunCallbacks(_, _, _, _)
RunCallbacks(queue, acc, t, cell_borrowed) ==
    IF queue = <<>> \/ acc.panic # "none" THEN acc
    ELSE LET r == Head(queue)
         IN  IF r.result = None
             THEN RunCallbacks(Tail(queue), [acc EXCEPT !.left = Append(@, r)],
                               t, cell_borrowed)
             ELSE LET res == Unwrap(r.result)
                      o == handle_response(res, acc.state, t, cell_borrowed)
                  IN  RunCallbacks(Tail(queue),
                                   [state |-> o.state,
                                    panic |-> o.panic,
                                    drop |-> IF o.drop = "none" THEN acc.drop ELSE o.drop,
                                    last |-> [op |-> "callback", from |-> acc.state.tag,
                                              res |-> ResultClass(res), queued |-> None,
                                              wrote |-> FALSE],
                                    left |-> acc.left],
                                   t, cell_borrowed)

(***************************************************************************)
(* FobnailClient::poll, step by step.                                      *)
(***************************************************************************)
\* variant of PollOrder: the state cell is borrowed before the transport is polled
PollOrder_BorrowFirst == <<"borrow", "coap_poll", "match">>

\* the order of the steps of poll(): the transport is polled, then the
\* state cell is borrowed, then the match runs
PollOrder == <<"coap_poll", "borrow", "match">>

NextPc == IF pc = Len(PollOrder) THEN 1 ELSE pc + 1

Running == panic = "none"

\* self.coap_client.poll(socket)
CoapPoll ==
    /\ Running
    /\ PollOrder[pc] = "coap_poll"
    /\ LET acc == RunCallbacks(requests,
                               [state |-> state, panic |-> "none", drop |-> "none",
                                last |-> last, left |-> <<>>],
                               now, state_borrowed)
       IN  /\ state' = acc.state
           /\ panic' = acc.panic
           /\ aik_drop' = IF acc.drop = "none" THEN aik_drop ELSE acc.drop
           /\ last' = acc.last
           /\ requests' = IF acc.panic = "none" THEN acc.left ELSE requests
           /\ verified' = IF acc.state.tag = "Idle" THEN {} ELSE verified
           /\ issued' = IF acc.state.tag = "Idle" THEN <<>> ELSE issued
    /\ pc' = NextPc
    /\ UNCHANGED <<state_borrowed, now, store, call, ret, pal>>

\* let state = &mut *state.borrow_mut()
BorrowState ==
    /\ Running
    /\ PollOrder[pc] = "borrow"
    /\ IF state_borrowed
       THEN panic' = "BorrowMutError(state)" /\ UNCHANGED state_borrowed
       ELSE state_borrowed' = TRUE /\ UNCHANGED panic
    /\ pc' = NextPc
    /\ UNCHANGED <<state, requests, now, store, aik_drop, last, verified, call, ret,
                   issued, pal>>

\* one arm of the match, then the end of poll(): the borrow is released
ArmStep(tag, a, files, passed) ==
    /\ Running
    /\ PollOrder[pc] = "match"
    /\ state.tag = tag
    /\ a.queued # None => Len(requests) < MaxQueue
    /\ state' = a.out.state
    /\ panic' = a.out.panic
    /\ aik_drop' = IF a.out.drop = "none" THEN aik_drop ELSE a.out.drop
    /\ requests' = IF a.queued = None \/ a.out.panic # "none" THEN requests
                   ELSE queue_request(requests, Unwrap(a.queued))
    /\ store' = files
    /\ last' = [op |-> "poll", from |-> tag, res |-> "none", queued |-> a.queued,
                wrote |-> a.wrote]
    /\ verified' = IF a.out.state.tag = "Idle" THEN {} ELSE verified \cup passed
    /\ issued' = IF a.out.state.tag = "Idle" THEN <<>>
                 ELSE IF a.queued = None \/ a.out.panic # "none" THEN issued
                 ELSE Append(issued, Unwrap(a.queued))
    /\ state_borrowed' = FALSE
    /\ pc' = NextPc
    /\ UNCHANGED <<now, call, ret, pal>>

PollIdle == state.tag = "Idle" /\ ArmStep("Idle", poll_Idle(state, now), store, {})

PollInit == state.tag = "Init" /\ ArmStep("Init", poll_Init(state), store, {})

PollInitDataReceived ==
    /\ state.tag = "InitDataReceived"
    /\ ArmStep("InitDataReceived", poll_InitDataReceived(state), store, {})

PollRequestEkCert ==
    /\ state.tag = "RequestEkCert"
    /\ ArmStep("RequestEkCert", poll_RequestEkCert(state), store, {})

PollVerifyEkCertificate ==
    /\ state.tag = "VerifyEkCertificate"
    /\ ArmStep("VerifyEkCertificate", poll_VerifyEkCertificate(state, now), store, {})

PollRequestAik ==
    /\ state.tag = "RequestAik"
    /\ ArmStep("RequestAik", poll_RequestAik(state), store, {})

PollVerifyAikStage1 ==
    /\ state.tag = "VerifyAikStage1"
    /\ \E secret_ok \in BOOLEAN, seed_ok \in BOOLEAN :
          ArmStep("VerifyAikStage1",
                  poll_VerifyAikStage1(state, now, secret_ok, seed_ok), store, {})

PollRequestMetadata ==
    /\ state.tag = "RequestMetadata"
    /\ ArmStep("RequestMetadata", poll_RequestMetadata(state), store, {})

PollVerifyMetadata ==
    /\ state.tag = "VerifyMetadata"
    /\ \E verify_ok \in BOOLEAN, hash_ok \in BOOLEAN :
          LET r == do_verify_metadata_signature(state.metadata, state.aik_pubkey,
                                                verify_ok, hash_ok)
          IN  ArmStep("VerifyMetadata",
                      poll_VerifyMetadata(state, now, verify_ok, hash_ok), store,
                      IF r.res = "Ok" /\ do_verify_metadata(r.meta) THEN {r.hash} ELSE {})

PollStoreMetadata ==
    /\ state.tag = "StoreMetadata"
    /\ LET a == poll_StoreMetadata(state, now, store)
       IN  ArmStep("StoreMetadata", a, a.files, {})

(***************************************************************************)
(* The environment: the clock and the attester.                            *)
(***************************************************************************)
TickSteps == {RETRY_TRANSPORT_MS, RETRY_MS}

Tick ==
    /\ Running
    /\ \E d \in TickSteps : now + d <= MaxTime /\ now' = now + d
    /\ UNCHANGED <<state, state_borrowed, pc, requests, store, panic, aik_drop, last, verified,
                   call, ret, issued, pal>>

\* the result of a queued request becomes ready: a response packet of the
\* attester, or a timeout or a malformed packet detected by the CoAP client
Respond ==
    /\ Running
    /\ \E i \in 1..Len(requests), r \in Results :
          /\ requests[i].result = None
          /\ requests' = [requests EXCEPT ![i].result = Some(r)]
    /\ UNCHANGED <<state, state_borrowed, pc, now, store, panic, aik_drop, last, verified,
                   call, ret, issued, pal>>

(***************************************************************************)
(* pal_nrf: the TIMER0 interrupt, init() and poll_usb().  The interrupt    *)
(* preempts the main thread between any two of its statements; the main    *)
(* thread never preempts the interrupt handler.                            *)
(***************************************************************************)
MaxIrq == 102     \* TIMER0 interrupts taken in a run

MaxClock == 3     \* milliseconds the clock advances in a run

TIMER0_PERIOD_MS == 1

U16_MAX == 65535

USB_INIT_AFTER == 100

\* the statics and the main thread at reset.  checks: the build has overflow
\* checks on (a subtraction that underflows panics) or off (it wraps)
PalReset(checks) ==
    [pc |-> "init",          \* main thread: init, wait, main, delay, store, usb, panicked
     n |-> 0,                \* TIMER0_N
     last |-> 0,             \* TIMER0_LAST
     clock |-> 0,            \* timer::get_time_ms()
     now |-> 0,              \* poll_usb's local `now`
     log |-> "none",         \* the latest delay report: error, debug
     irqs |-> 0,             \* TIMER0 interrupts taken so far
     usb_inits |-> 0,        \* calls of usb::init so far
     init_at |-> 0,          \* the interrupt that called usb::init first
     early_usb |-> FALSE,    \* usb_interrupt ran in the handler before usb::init returned
     underflow |-> FALSE,    \* now - TIMER0_LAST was computed with TIMER0_LAST > now
     checks |-> checks]

\* now - TIMER0_LAST in u64, compared with the period: the report it makes
DelayLog(t, timer0_last) ==
    IF timer0_last > t \/ t - timer0_last > TIMER0_PERIOD_MS THEN "error" ELSE "debug"

\* variant of TIMER0_count: the counter is incremented without the sentinel test
TIMER0_count_NoGuard(n) ==
    IF (n + 1) % 65536 = USB_INIT_AFTER THEN [n |-> U16_MAX, usb_init |-> TRUE]
    ELSE [n |-> (n + 1) % 65536, usb_init |-> FALSE]

\* the first block of the handler: TIMER0_N counts the interrupts up to
\* the one that calls usb::init, then holds the sentinel
TIMER0_count(n) ==
    IF n # U16_MAX
    THEN IF n + 1 = USB_INIT_AFTER THEN [n |-> U16_MAX, usb_init |-> TRUE]
         ELSE [n |-> n + 1, usb_init |-> FALSE]
    ELSE [n |-> n, usb_init |-> FALSE]

\* the handler of the TIMER0 interrupt, d milliseconds long
TIMER0(p, d) ==
    LET c == TIMER0_count(p.n)
        t == p.clock + d
        inits == IF c.usb_init THEN p.usb_inits + 1 ELSE p.usb_inits
    IN  [p EXCEPT !.n = c.n,
                  !.irqs = p.irqs + 1,
                  !.usb_inits = inits,
                  !.init_at = IF c.usb_init /\ p.usb_inits = 0 THEN p.irqs + 1 ELSE p.init_at,
                  !.clock = t,
                  !.underflow = p.underflow \/ p.last > t,
                  !.log = DelayLog(t, p.last),
                  !.last = t,
                  !.early_usb = p.early_usb \/ (c.n = U16_MAX /\ inits = 0)]

PalStep(p) ==
    /\ pal' = p
    /\ UNCHANGED <<state, state_borrowed, pc, requests, now, store, panic, aik_drop, last,
                   verified, call, ret, issued>>

\* the interrupt is taken once init() has unmasked it
Timer0Interrupt ==
    /\ pal.pc \notin {"init", "panicked"}
    /\ pal.irqs < MaxIrq
    /\ \E d \in 0..1 :
          /\ d = 1 => TIMER0_count(pal.n).usb_init /\ pal.clock < MaxClock
          /\ PalStep(TIMER0(pal, d))

PalTick ==
    /\ pal.pc # "panicked"
    /\ pal.clock < MaxClock
    /\ PalStep([pal EXCEPT !.clock = pal.clock + 1])

\* init(): the peripherals are set up and the interrupt is unmasked
InitUnmask ==
    /\ pal.pc = "init"
    /\ PalStep([pal EXCEPT !.pc = "wait"])

\* init(): the loop on TIMER0_N ends and init() returns
InitReturn ==
    /\ pal.pc = "wait"
    /\ pal.n = U16_MAX
    /\ PalStep([pal EXCEPT !.pc = "main"])

\* poll_usb: let now = timer::get_time_ms() as u64
PollUsbSample ==
    /\ pal.pc = "main"
    /\ PalStep([pal EXCEPT !.pc = "delay", !.now = pal.clock])

\* poll_usb: let delay = now - TIMER0_LAST, and the report
PollUsbDelay ==
    /\ pal.pc = "delay"
    /\ PalStep(IF pal.last > pal.now
               THEN [pal EXCEPT !.underflow = TRUE,
                                !.log = IF pal.checks THEN pal.log
                                        ELSE DelayLog(pal.now, pal.last),
                                !.pc = IF pal.checks THEN "panicked" ELSE "store"]
               ELSE [pal EXCEPT !.log = DelayLog(pal.now, pal.last), !.pc = "store"])

\* poll_usb: TIMER0_LAST = now
PollUsbStore ==
    /\ pal.pc = "store"
    /\ PalStep([pal EXCEPT !.last = pal.now, !.pc = "usb"])

\* poll_usb: free(|cs| usb::usb_interrupt(cs))
PollUsbInterrupt ==
    /\ pal.pc = "usb"
    /\ PalStep([pal EXCEPT !.pc = "main"])

InitPal ==
    /\ state = StateDefault
    /\ requests = <<>>
    /\ store = {}
    /\ issued = <<>>
    /\ state_borrowed = FALSE
    /\ pc = 1
    /\ now = 0
    /\ panic = "none"
    /\ aik_drop = "none"
    /\ last = [op |-> "new", from |-> "none", res |-> "none", queued |-> None,
               wrote |-> FALSE]
    /\ verified = {}
    /\ call = [fn |-> "none", arg |-> <<>>]
    /\ ret = None
    /\ \E checks \in BOOLEAN : pal = PalReset(checks)

NextPal ==
    \/ InitUnmask
    \/ InitReturn
    \/ Timer0Interrupt
    \/ PalTick
    \/ PollUsbSample
    \/ PollUsbDelay
    \/ PollUsbStore
    \/ PollUsbInterrupt

SpecPal == InitPal /\ [][NextPal]_vars

(***************************************************************************)
(* Specifications.                                                         *)
(***************************************************************************)
\* no function is called on its own while the state machine runs
NoCall == [fn |-> "none", arg |-> <<>>]

Uncalled == call = NoCall /\ ret = None

InitRest ==
    /\ state_borrowed = FALSE
    /\ pc = 1
    /\ now = 0
    /\ panic = "none"
    /\ aik_drop = "none"
    /\ last = [op |-> "new", from |-> "none", res |-> "none", queued |-> None,
               wrote |-> FALSE]
    /\ verified = {}
    /\ pal = PalReset(FALSE)

\* the requests of the current cycle that were queued before the state st
\* was reached, in the order poll() queues them
CycleOrder == <<"/attest", "/ek", "/aik", "/metadata">>

IssuedIn(st) ==
    LET sent(k) == IF st.request_pending THEN k ELSE k - 1
        k == CASE st.tag = "Idle" -> 0
               [] st.tag = "Init" -> sent(1)
               [] st.tag \in {"InitDataReceived", "VerifyEkCertificate"} -> 1
               [] st.tag = "RequestEkCert" -> sent(2)
               [] st.tag = "RequestAik" -> sent(3)
               [] st.tag = "VerifyAikStage1" -> 3
               [] st.tag = "RequestMetadata" -> sent(4)
               [] OTHER -> 4
    IN  SubSeq(CycleOrder, 1, k)

\* FobnailClient::new
Init ==
    /\ state = StateDefault
    /\ requests = <<>>
    /\ store = {}
    /\ issued = <<>>
    /\ InitRest
    /\ Uncalled

\* No arm constructs RequestMetadata, so the arms of the metadata phase stay
\* out of Next and run in SpecMeta, which starts where that phase starts.
Next ==
    \/ CoapPoll
    \/ BorrowState
    \/ PollIdle
    \/ PollInit
    \/ PollInitDataReceived
    \/ PollRequestEkCert
    \/ PollVerifyEkCertificate
    \/ PollRequestAik
    \/ PollVerifyAikStage1
    \/ Tick
    \/ Respond

Spec == Init /\ [][Next]_vars

\* /meta/ is persistent: it may hold the digest of metadata seen before
GoodEncoded == Encoded(1, TRUE, Some(Meta(1, "SHA256", 32)))

StoredBefore == {{}, {File(format_hash(Sha256(GoodEncoded)), <<>>)}}

InitMeta ==
    /\ state \in {RequestMetadata(FALSE, k) : k \in Keys}
    /\ requests = <<>>
    /\ store \in StoredBefore
    /\ issued = IssuedIn(state)
    /\ InitRest
    /\ Uncalled

NextMeta ==
    \/ Next
    \/ PollRequestMetadata
    \/ PollVerifyMetadata
    \/ PollStoreMetadata

SpecMeta == InitMeta /\ [][NextMeta]_vars

(***************************************************************************)
(* poll() and the callbacks as functions of their inputs: any variant of   *)
(* the state, with no request queued or with one whose result is ready.    *)
(***************************************************************************)
GoodCert == Cert(TRUE, TRUE, "Rsa", TRUE)

InputStates ==
    {Idle(None), Idle(Some(RETRY_TRANSPORT_MS)),
     InitDataReceived(EmptyPayload),
     VerifyEkCertificate([kind |-> "cert", cert |-> GoodCert]),
     VerifyAikStage1([kind |-> "aik", loaded_key_name |-> "sha256"], GoodCert),
     StoreMetadata(Meta(1, "SHA256", 32), Sha256(GoodEncoded))}
    \cup {StInit(b) : b \in BOOLEAN}
    \cup {RequestEkCert(b) : b \in BOOLEAN}
    \cup {RequestAik(b, Some(GoodCert)) : b \in BOOLEAN}
    \cup {RequestMetadata(b, k) : b \in BOOLEAN, k \in Keys}
    \cup {VerifyMetadata([kind |-> "meta", encoded_metadata |-> GoodEncoded,
                          signature |-> s], k) : s \in Signatures, k \in Keys}

InputQueues == {<<>>} \cup {<<[path |-> "/attest", result |-> Some(r)]>> : r \in Results}

InitInputs ==
    /\ state \in InputStates
    /\ requests \in InputQueues
    /\ state.tag \in RequestStates => (state.request_pending <=> requests # <<>>)
    /\ store = {}
    /\ issued = IssuedIn(state)
    /\ InitRest
    /\ Uncalled

SpecInputs == InitInputs /\ [][NextMeta]_vars

(***************************************************************************)
(* The firmware under a fair schedule: the main loop calls poll() again    *)
(* and again, the clock advances, and every queued request gets a response *)
(* or a transport error.                                                   *)
(***************************************************************************)
Poll ==
    \/ CoapPoll
    \/ BorrowState
    \/ PollIdle
    \/ PollInit
    \/ PollInitDataReceived
    \/ PollRequestEkCert
    \/ PollVerifyEkCertificate
    \/ PollRequestAik
    \/ PollVerifyAikStage1

Fairness == WF_vars(Poll) /\ WF_vars(Tick) /\ WF_vars(Respond)

SpecFair == Init /\ [][Next]_vars /\ Fairness

(***************************************************************************)
(* The functions of the client called on their own: call holds the         *)
(* function and its argument, ret receives what it returns.                *)
(***************************************************************************)
MaxTail == 34

\* byte values of the model: 0x00, 0x0b and 0xff
ByteSamples == {0, 11, 255}

\* n bytes that follow the algorithm id
Filler(n) == [i \in 1..n |-> (i * 7) % 256]

\* inputs of LoadedKeyName::decode: shorter than an algorithm id, or an
\* algorithm id followed by 0..MaxTail bytes
DecodeInputs ==
    {<<>>}
    \cup {<<a>> : a \in ByteSamples}
    \cup {<<a, b>> \o Filler(n) : a \in ByteSamples, b \in ByteSamples, n \in 0..MaxTail}

\* inputs of do_verify_metadata: versions around CURRENT_VERSION, every
\* HashType, digest lengths around the three expected ones
MetadataInputs ==
    {Meta(v, id, len) : v \in {CURRENT_VERSION - 1, CURRENT_VERSION, CURRENT_VERSION + 1},
                        id \in HashTypes,
                        len \in {0, 19, 20, 21, 31, 32, 33, 63, 64, 65}}

\* inputs of do_verify_metadata_signature: a payload that is no envelope,
\* or an envelope whose signature is 64, 128, 129 or 256 bytes long and was
\* made by the RSA key (1), by the Ed25519 key (2) or by neither (0)
SignatureSamples ==
    {Sig(64, 0), Sig(64, 1), Sig(64, 2), Sig(128, 2), Sig(129, 2), Sig(256, 1), Sig(256, 2)}

SignatureInputs ==
    {[metadata |-> m, key |-> k, verify_ok |-> v, hash_ok |-> h] :
        m \in {EmptyPayload}
               \cup {[kind |-> "meta", encoded_metadata |-> e, signature |-> g] :
                       e \in EncodedMetas, g \in SignatureSamples},
        k \in Keys, v \in BOOLEAN, h \in BOOLEAN}

\* digests: two that differ only in where the nibbles of the first two
\* bytes fall (01 23 .. and 12 03 ..), and two computed by Trussed
DigestSamples ==
    {[i \in 1..SHA256_LEN |-> CASE i = 1 -> 1 [] i = 2 -> 35 [] OTHER -> 0],
     [i \in 1..SHA256_LEN |-> CASE i = 1 -> 18 [] i = 2 -> 3 [] OTHER -> 0],
     Sha256(Encoded(1, TRUE, None)),
     Sha256(Encoded(2, TRUE, None))}

\* inputs of the dedup store: the digests stored before, the digest to store
StoreInputs == {[before |-> b, hash |-> h] : b \in SUBSET DigestSamples, h \in DigestSamples}

Called(fn) == call.fn = fn /\ ret = None

Return(v) ==
    /\ ret' = Some(v)
    /\ UNCHANGED <<state, state_borrowed, pc, requests, now, store, panic, aik_drop, last,
                   verified, call, issued, pal>>

CallDecode ==
    /\ Called("LoadedKeyName::decode")
    /\ Return(LoadedKeyName_decode(call.arg))

CallVerifyMetadata ==
    /\ Called("do_verify_metadata")
    /\ Return(do_verify_metadata(call.arg))

CallVerifySignature ==
    /\ Called("do_verify_metadata_signature")
    /\ Return(do_verify_metadata_signature(call.arg.metadata, call.arg.key,
                                           call.arg.verify_ok, call.arg.hash_ok))

\* device ids with the text "{:X}" prints for them
DeviceIdSamples ==
    {[hex |-> "0", digits |-> <<0, 0, 0, 0, 0, 0, 0, 0, 0, 0, 0, 0, 0, 0, 0, 0>>],
     [hex |-> "A", digits |-> <<0, 0, 0, 0, 0, 0, 0, 0, 0, 0, 0, 0, 0, 0, 0, 10>>],
     [hex |-> "100", digits |-> <<0, 0, 0, 0, 0, 0, 0, 0, 0, 0, 0, 0, 0, 1, 0, 0>>],
     [hex |-> "DEADBEEF", digits |-> <<0, 0, 0, 0, 0, 0, 0, 0, 13, 14, 10, 13, 11, 14, 14, 15>>],
     [hex |-> "B00C0FFEE0", digits |-> <<0, 0, 0, 0, 0, 0, 11, 0, 0, 12, 0, 15, 15, 14, 14, 0>>],
     [hex |-> "123456789ABCDEF0",
      digits |-> <<1, 2, 3, 4, 5, 6, 7, 8, 9, 10, 11, 12, 13, 14, 15, 0>>],
     [hex |-> "FFFFFFFFFFFFFFFF",
      digits |-> <<15, 15, 15, 15, 15, 15, 15, 15, 15, 15, 15, 15, 15, 15, 15, 15>>]}

\* RSA keys: modulus lengths that are and are not multiples of 8 bits, the
\* exponents 3, 65537 and one of 32 bits
RsaKeySamples ==
    {[n_bits |-> n, e_bits |-> e] : n \in {512, 1023, 1024, 2047, 2048}, e \in {2, 17, 32}}

CsrInputs ==
    {[key |-> k, device_id |-> d.digits, pub_ok |-> p, info_ok |-> i,
      sign_ok |-> g, final_ok |-> f] :
        k \in RsaKeySamples, d \in DeviceIdSamples,
        p \in BOOLEAN, i \in BOOLEAN, g \in BOOLEAN, f \in BOOLEAN}

\* inputs of prepare_aik_challenge: a payload that is or is not an AikKey,
\* any certificate, and whether the two random_bytes syscalls succeed
ChallengeInputs ==
    {[data |-> d, ek_cert |-> c, secret_ok |-> s, seed_ok |-> e] :
        d \in AikPayloads \cup TextPayloads, c \in Certs, s \in BOOLEAN, e \in BOOLEAN}

CallPrepareAikChallenge ==
    /\ Called("prepare_aik_challenge")
    /\ Return(prepare_aik_challenge(call.arg.data, call.arg.ek_cert,
                                    call.arg.secret_ok, call.arg.seed_ok))

CallMakeCsr ==
    /\ Called("make_csr")
    /\ Return(make_csr(call.arg.key, call.arg.device_id, call.arg.pub_ok,
                       call.arg.info_ok, call.arg.sign_ok, call.arg.final_ok))

\* store_metadata_hash twice with the same digest, have_metadata_hash after
\* the first store and, for every digest, after the second
CallStore ==
    /\ Called("store_metadata_hash")
    /\ LET files == {File(format_hash(d), <<>>) : d \in call.arg.before}
           first == store_metadata_hash(files, call.arg.hash)
           second == store_metadata_hash(first, call.arg.hash)
       IN  Return([first |-> first,
                   second |-> second,
                   have_first |-> have_metadata_hash(first, call.arg.hash),
                   have_second |-> {d \in DigestSamples : have_metadata_hash(second, d)}])

InitFn ==
    /\ state = StateDefault
    /\ requests = <<>>
    /\ store = {}
    /\ issued = <<>>
    /\ InitRest
    /\ ret = None
    /\ \/ \E d \in DecodeInputs : call = [fn |-> "LoadedKeyName::decode", arg |-> d]
       \/ \E m \in MetadataInputs : call = [fn |-> "do_verify_metadata", arg |-> m]
       \/ \E a \in SignatureInputs : call = [fn |-> "do_verify_metadata_signature", arg |-> a]
       \/ \E a \in StoreInputs : call = [fn |-> "store_metadata_hash", arg |-> a]
       \/ \E a \in CsrInputs : call = [fn |-> "make_csr", arg |-> a]
       \/ \E a \in ChallengeInputs : call = [fn |-> "prepare_aik_challenge", arg |-> a]

NextFn ==
    \/ CallDecode
    \/ CallVerifyMetadata
    \/ CallVerifySignature
    \/ CallStore
    \/ CallMakeCsr
    \/ CallPrepareAikChallenge

SpecFn == InitFn /\ [][NextFn]_vars

(***************************************************************************)
(* Properties.                                                             *)
(***************************************************************************)
\* the requests whose result is ready, oldest first
Ready == SelectSeq(requests, LAMBDA r : r.result # None)

\* the step is the transport poll of poll() and runs exactly one callback
CallbackStep ==
    /\ PollOrder[pc] = "coap_poll"
    /\ pc' # pc
    /\ Len(Ready) = 1

\* the result handed to that callback
ReadyResult == Unwrap(Ready[1].result)

\* the step is the match of poll()
MatchStep == PollOrder[pc] = "match" /\ pc' # pc

\* the state is Idle with a deadline d milliseconds after the clock
IdleFor(st, d) == st.tag = "Idle" /\ st.timeout = Some(now + d)

\* C1: at most one request is outstanding at any time, and it is
\* outstanding exactly while a request state has request_pending set; in a
\* request state a poll() with request_pending clear queues exactly one
\* request and sets the flag, a poll() with the flag set queues nothing and
\* leaves the state as it is.
C1_OneRequestOutstanding ==
    /\ [](/\ Len(requests) <= 1
          /\ Len(requests) = 1 <=> (state.tag \in RequestStates /\ state.request_pending))
    /\ [][(MatchStep /\ state.tag \in RequestStates) =>
            IF state.request_pending
            THEN requests' = requests /\ state' = state
            ELSE /\ Len(requests') = Len(requests) + 1
                 /\ state' = [state EXCEPT !.request_pending = TRUE]]_vars

\* a poll() ran in RequestAik with the /aik request outstanding and queued nothing
C1_Witness ==
    /\ last.op = "poll"
    /\ last.from = "RequestAik"
    /\ last.queued = None
    /\ Len(requests) = 1
    /\ requests[1].path = "/aik"

C3_TransportErrorRetry ==
    [][(CallbackStep /\ ~ReadyResult.ok /\ state.tag \in RequestStates)
       => state' = Idle(Some(now + 1000)) /\ panic' = "none"]_vars

\* a timeout was just handled in RequestMetadata
C3_Witness ==
    /\ last.op = "callback"
    /\ last.res = "transport"
    /\ last.from = "RequestMetadata"
    /\ IdleFor(state, 1000)

\* C4: a response with a code outside the six 2.xx codes handled in a
\* request state moves the state to Idle with timeout = now + 5000.
C4_ServerErrorRetry ==
    [][(/\ CallbackStep
        /\ ReadyResult.ok
        /\ ReadyResult.code \notin {"Created", "Deleted", "Valid", "Changed",
                                    "Content", "Continue"}
        /\ state.tag \in RequestStates)
       => state' = Idle(Some(now + 5000)) /\ panic' = "none"]_vars

\* an error response was just handled in RequestEkCert
C4_Witness ==
    /\ last.op = "callback"
    /\ last.res = "server_error"
    /\ last.from = "RequestEkCert"
    /\ IdleFor(state, 5000)

\* the state a request state advances to with payload p
Advanced(st, p) ==
    CASE st.tag = "Init" -> InitDataReceived(p)
      [] st.tag = "RequestEkCert" -> VerifyEkCertificate(p)
      [] st.tag = "RequestAik" -> VerifyAikStage1(p, Unwrap(st.ek_cert))
      [] st.tag = "RequestMetadata" -> VerifyMetadata(p, st.aik_pubkey)

\* C5 as stated: a response with any of the six 2.xx codes handled in a
\* request state advances the protocol and carries the payload along.
C5_AnySuccessAdvances ==
    [][(/\ CallbackStep
        /\ ReadyResult.ok
        /\ ReadyResult.code \in SuccessCodes
        /\ state.tag \in RequestStates)
       => state' = Advanced(state, ReadyResult.payload)]_vars

\* C5 amended: a Content response handled in a request state advances the
\* protocol and carries the payload along; a response with one of the other
\* five 2.xx codes moves the state to Idle with timeout = now + 5000.
C5_ContentAdvances ==
    [][(/\ CallbackStep
        /\ ReadyResult.ok
        /\ ReadyResult.code \in SuccessCodes
        /\ state.tag \in RequestStates)
       => /\ panic' = "none"
          /\ state' = IF ReadyResult.code = "Content"
                      THEN Advanced(state, ReadyResult.payload)
                      ELSE Idle(Some(now + 5000))]_vars

\* a Content response to /aik carried its payload and the EK certificate
\* into VerifyAikStage1
C5_Witness ==
    /\ last.op = "callback"
    /\ last.res = "content"
    /\ last.from = "RequestAik"
    /\ state.tag = "VerifyAikStage1"
    /\ state.data.kind = "aik"
    /\ state.ek_cert = GoodCert

C7_StoreOnlyVerified ==
    [][store' # store =>
          /\ MatchStep
          /\ state.tag = "StoreMetadata"
          /\ state.hash \in verified
          /\ Names(store') = Names(store) \cup {format_hash(state.hash)}]_vars

\* the digest of verified metadata was written by the StoreMetadata arm
C7_Witness ==
    /\ last.op = "poll"
    /\ last.from = "StoreMetadata"
    /\ format_hash(Sha256(Encoded(5, FALSE, Some(Meta(1, "SHA1", 20))))) \in Names(store)

\* the edges of the transition table
Edges ==
    {<<"Idle", "Init">>, <<"Init", "InitDataReceived">>,
     <<"InitDataReceived", "RequestEkCert">>,
     <<"RequestEkCert", "VerifyEkCertificate">>,
     <<"VerifyEkCertificate", "RequestAik">>,
     <<"RequestAik", "VerifyAikStage1">>,
     <<"RequestMetadata", "VerifyMetadata">>,
     <<"VerifyMetadata", "StoreMetadata">>,
     <<"StoreMetadata", "Idle">>}
    \cup {<<t, "Idle">> : t \in StateTags \ {"Idle"}}

\* C8: every change of the variant of the state follows an edge of the
\* transition table.
C8_TransitionsFollowEdges ==
    [][state'.tag # state.tag => <<state.tag, state'.tag>> \in Edges]_vars

\* the metadata edge VerifyMetadata -> StoreMetadata was taken
C8_Witness ==
    /\ last.op = "poll"
    /\ last.from = "VerifyMetadata"
    /\ state.tag = "StoreMetadata"

C10_NoCallbackUnderBorrow ==
    /\ [](panic # "BorrowMutError(state)")
    /\ [](state_borrowed => PollOrder[pc] = "match")
    /\ [][Len(requests') < Len(requests) =>
             /\ ~state_borrowed
             /\ PollOrder[pc] = "coap_poll"]_vars
    /\ [][Len(requests') > Len(requests) =>
             /\ state_borrowed
             /\ requests'[Len(requests')].result = None
             /\ state'.tag = state.tag]_vars

\* a callback ran in the transport poll and poll() then borrowed the cell
C10_Witness ==
    /\ last.op = "callback"
    /\ last.from = "Init"
    /\ state_borrowed
    /\ state.tag = "InitDataReceived"

\* the clock of the model cannot advance any more
ClockExhausted == \A d \in TickSteps : now + d > MaxTime

\* C11: under the fair schedule the state machine reaches Init and issues a
\* new /attest request again and again, for as long as the clock runs.
C11_AttestAgainAndAgain == []<>(last.queued = Some("/attest") \/ ClockExhausted)

\* the path of the request a request state issues
RequestPath(tag) ==
    CASE tag = "Init" -> "/attest"
      [] tag = "RequestEkCert" -> "/ek"
      [] tag = "RequestAik" -> "/aik"
      [] tag = "RequestMetadata" -> "/metadata"

C13_RetryDelays ==
    [][(state'.tag = "Idle" /\ state' # state) =>
          LET transport == /\ PollOrder[pc] = "coap_poll"
                           /\ Len(Ready) >= 1
                           /\ ~ReadyResult.ok
          IN  state'.timeout = Some(now + (IF transport THEN 1000 ELSE 5000))]_vars

\* a transport error of /attest was handled after an earlier Idle had
\* expired: the deadline is again the clock plus 1000
C13_Witness ==
    /\ last.op = "callback"
    /\ last.res = "transport"
    /\ last.from = "Init"
    /\ now > 0
    /\ IdleFor(state, 1000)

\* C14: poll() returns normally in every reachable state.
C14_PollReturnsNormally == last.op = "poll" => panic = "none"

\* C15: LoadedKeyName::decode returns None for an input shorter than 2
\* bytes, None when the big-endian algorithm id of the first 2 bytes is not
\* 0x000b, None when the id is 0x000b and the bytes after it are not
\* exactly 32, and otherwise Some of SHA-256 with the 32 bytes after the id.
C15_DecodeLoadedKeyName ==
    (call.fn = "LoadedKeyName::decode" /\ ret # None) =>
        LET data == call.arg
            r == Unwrap(ret)
            id == data[1] * 256 + data[2]
        IN  IF Len(data) < 2 THEN r = None
            ELSE IF id # 11 THEN r = None
            ELSE IF Len(data) - 2 # 32 THEN r = None
            ELSE r = Some([algorithm |-> "Sha256",
                           hash |-> [i \in 1..32 |-> data[i + 2]]])

\* decode returned the name of a SHA-256 key
C15_Witness ==
    /\ call.fn = "LoadedKeyName::decode"
    /\ ret # None
    /\ Unwrap(ret) # None
    /\ Len(call.arg) = 34

\* C16: do_verify_metadata accepts exactly the metadata whose version is
\* CURRENT_VERSION and whose ek_hash digest has the length of its algorithm:
\* 20 bytes for SHA1, 32 for SHA256, 64 for SHA512.
C16_MetadataAccepted ==
    (call.fn = "do_verify_metadata" /\ ret # None) =>
        LET m == call.arg
        IN  Unwrap(ret) = (/\ m.version = CURRENT_VERSION
                           /\ \/ m.ek_hash.id = "SHA1" /\ m.ek_hash.len = 20
                              \/ m.ek_hash.id = "SHA256" /\ m.ek_hash.len = 32
                              \/ m.ek_hash.id = "SHA512" /\ m.ek_hash.len = 64)

\* metadata of the current version with a 64-byte SHA512 digest was accepted
C16_Witness ==
    /\ call.fn = "do_verify_metadata"
    /\ call.arg = Meta(CURRENT_VERSION, "SHA512", 64)
    /\ ret = Some(TRUE)

\* C17: with an Ed25519 key do_verify_metadata_signature rejects an
\* envelope whose signature is longer than 128 bytes without calling the
\* secure element; verify_ed255 is never given a signature longer than 128
\* bytes, and the SHA-256 call comes only after a verify_ed255 call that
\* reported the signature valid.
C17_LongSignatureRejectedFirst ==
    (/\ call.fn = "do_verify_metadata_signature"
     /\ ret # None
     /\ call.arg.key.kind = "Ed25519"
     /\ call.arg.metadata.kind = "meta") =>
        LET r == Unwrap(ret)
            sig == call.arg.metadata.signature
            valid == call.arg.verify_ok /\ sig.by = call.arg.key.id
        IN  /\ sig.len > 128 => r.res = "Err" /\ r.calls = <<>>
            /\ \A i \in DOMAIN r.calls :
                  r.calls[i].op = "verify_ed255" => r.calls[i].sig_len <= 128
            /\ \A i \in DOMAIN r.calls :
                  r.calls[i].op = "hash" =>
                      /\ valid
                      /\ \E j \in 1..(i - 1) : r.calls[j].op = "verify_ed255"

\* an envelope with a 129-byte signature was rejected for an Ed25519 key
C17_Witness ==
    /\ call.fn = "do_verify_metadata_signature"
    /\ call.arg.key.kind = "Ed25519"
    /\ call.arg.metadata.kind = "meta"
    /\ call.arg.metadata.signature.len = 129
    /\ ret # None
    /\ Unwrap(ret).res = "Err"

\* C18: for both kinds of key do_verify_metadata_signature returns
\* Ok((Metadata, digest)) exactly when the envelope decodes, the signature
\* is valid for the key, the hash call succeeds and encoded_metadata
\* decodes, the digest being the SHA-256 of encoded_metadata; in every
\* other case it returns an error.
C18_SignatureResult ==
    (call.fn = "do_verify_metadata_signature" /\ ret # None) =>
        LET r == Unwrap(ret)
            a == call.arg
            enc == a.metadata.encoded_metadata
            sig == a.metadata.signature
            valid == /\ sig.by = a.key.id
                     /\ a.key.kind = "Ed25519" =>
                            a.verify_ok /\ sig.len <= MAX_SIGNATURE_LENGTH
            ok == /\ a.metadata.kind = "meta"
                  /\ valid
                  /\ a.hash_ok
                  /\ enc.meta # None
        IN  IF ok
            THEN r.res = "Ok" /\ r.meta = Unwrap(enc.meta) /\ r.hash = Sha256(enc)
            ELSE r.res = "Err"

\* C19: storing the same digest twice leaves what the first store left,
\* one more file than before when the digest was not stored and none
\* otherwise; have_metadata_hash is true for the digest right after the
\* first store and false for every digest that was never stored.
C19_StoreIdempotent ==
    (call.fn = "store_metadata_hash" /\ ret # None) =>
        LET r == Unwrap(ret)
            a == call.arg
        IN  /\ r.second = r.first
            /\ Cardinality(r.second) = Cardinality(a.before \cup {a.hash})
            /\ r.have_first
            /\ r.have_second = a.before \cup {a.hash}

\* a digest was stored twice next to another digest stored before and a
\* third one never stored
C19_Witness ==
    /\ call.fn = "store_metadata_hash"
    /\ ret # None
    /\ Cardinality(call.arg.before) = 1
    /\ call.arg.hash \notin call.arg.before
    /\ Cardinality(Unwrap(ret).second) = 2
    /\ Unwrap(ret).have_second # DigestSamples

\* C20: the StoreMetadata arm writes the file of the digest exactly when
\* have_metadata_hash reports it absent, and in both cases moves the state
\* to Idle with timeout = now + 5000.
C20_StoreWritesWhenAbsent ==
    [][(MatchStep /\ state.tag = "StoreMetadata") =>
          /\ last'.wrote = (format_hash(state.hash) \notin Names(store))
          /\ Names(store') = Names(store) \cup {format_hash(state.hash)}
          /\ state' = Idle(Some(now + 5000))
          /\ panic' = "none"]_vars

\* the digest was already in /meta/: nothing was written and the state is
\* Idle for 5000 ms
C20_Witness ==
    /\ last.op = "poll"
    /\ last.from = "StoreMetadata"
    /\ ~last.wrote
    /\ store # {}
    /\ IdleFor(state, 5000)

\* the lowercase hexadecimal names of the digests of the five encoded
\* metadata of the model
DigestNames ==
    {"303b46515c67727d88939ea9b4bfcad5e0ebf6010c17222d38434e59646f7a85",
     "55606b76818c97a2adb8c3ced9e4effa05101b26313c47525d68737e89949faa",
     "7a85909ba6b1bcc7d2dde8f3fe09141f2a35404b56616c77828d98a3aeb9c4cf",
     "9faab5c0cbd6e1ecf7020d18232e39444f5a65707b86919ca7b2bdc8d3dee9f4",
     "c4cfdae5f0fb06111c27323d48535e69747f8a95a0abb6c1ccd7e2edf8030e19"}

\* C21: the files of /meta/ only grow: no step removes or renames a file
\* or changes its contents, and every file is empty and named by the 64
\* lowercase hexadecimal digits of a 32-byte digest.
C21_LedgerAppendOnly ==
    /\ [](\A f \in store : f.data = <<>> /\ f.name \in DigestNames)
    /\ [][store \subseteq store']_vars

\* a second digest was written next to the one stored before
C21_Witness ==
    /\ last.op = "poll"
    /\ last.from = "StoreMetadata"
    /\ last.wrote
    /\ Cardinality(store) = 2

\* C22: whenever the encoding of the public key, the encoding of the
\* CertReqInfo, the signature or the encoding of the CertReq fails,
\* make_csr returns Err(()) and no bytes.
C22_CsrFailureIsErr ==
    (call.fn = "make_csr" /\ ret # None) =>
        LET a == call.arg
            r == Unwrap(ret)
        IN  (~a.pub_ok \/ ~a.info_ok \/ ~a.sign_ok \/ ~a.final_ok) =>
                r.res = "Err" /\ r.csr = None

\* C23: the working buffer of make_csr has at least
\* (modulus_bits/8 + exponent_bits/8) + signature_bytes + 128 bytes, where
\* signature_bytes is the length of the modulus in bytes.
C23_CsrBufferHoldsSignature ==
    (call.fn = "make_csr" /\ ret # None /\ call.arg.pub_ok) =>
        LET key == call.arg.key
            signature_bytes == (key.n_bits + 7) \div 8
        IN  Unwrap(ret).buf_len >=
                ((key.n_bits \div 8) + (key.e_bits \div 8)) + signature_bytes + 128

\* C24: the subject of the request has exactly two RDN sets of one
\* attribute each, organizationName "Fobnail" and then serialNumber, the
\* latter being device_id in uppercase hexadecimal without leading zeros.
C24_CsrSubject ==
    (call.fn = "make_csr" /\ ret # None /\ Unwrap(ret).res = "Ok") =>
        LET subject == Unwrap(Unwrap(ret).csr).info.subject
            expected == (CHOOSE d \in DeviceIdSamples : d.digits = call.arg.device_id).hex
        IN  /\ Len(subject) = 2
            /\ \A i \in 1..2 : Cardinality(subject[i]) = 1
            /\ \E x \in subject[1] : x.oid = "organizationName" /\ x.value = "Fobnail"
            /\ \E x \in subject[2] : x.oid = "serialNumber" /\ x.value = expected

\* a request was made for the device id 0xDEADBEEF
C24_Witness ==
    /\ call.fn = "make_csr"
    /\ ret # None
    /\ Unwrap(ret).res = "Ok"
    /\ \E x \in Unwrap(Unwrap(ret).csr).info.subject[2] : x.value = "DEADBEEF"

\* the certificate of payload d parses and passes verify_ek_certificate
EkCertificatePasses(d) ==
    /\ d.kind = "cert"
    /\ d.cert.issuer
    /\ d.cert.subject
    /\ d.cert.key # "Err"
    /\ d.cert.trusted

\* C25: in VerifyEkCertificate poll() moves to RequestAik{false, Some(cert)}
\* exactly when the certificate parses and passes verification, and to
\* Idle with timeout = now + 5000 otherwise; it queues nothing, and /aik is
\* requested only in RequestAik with a certificate that passed.
C25_EkCertificateGate ==
    /\ [][(MatchStep /\ state.tag = "VerifyEkCertificate") =>
             /\ panic' = "none"
             /\ requests' = requests
             /\ state' = IF EkCertificatePasses(state.data)
                         THEN RequestAik(FALSE, Some(state.data.cert))
                         ELSE Idle(Some(now + 5000))]_vars
    /\ [][(/\ Len(requests') > Len(requests)
           /\ requests'[Len(requests')].path = "/aik") =>
             /\ state.tag = "RequestAik"
             /\ \E c \in state.ek_cert :
                   EkCertificatePasses([kind |-> "cert", cert |-> c])]_vars

\* a certificate passed and the state is RequestAik with it
C25_Witness ==
    /\ last.op = "poll"
    /\ last.from = "VerifyEkCertificate"
    /\ state = RequestAik(FALSE, Some(GoodCert))

\* C26: in VerifyAikStage1 a payload that is no AikKey, a loaded_key_name
\* that is no SHA-256 name and an EK key that cannot be extracted or loaded
\* move the state to Idle with timeout = now + 5000.
C26_AikFailuresRetry ==
    [][(/\ MatchStep
        /\ state.tag = "VerifyAikStage1"
        /\ \/ state.data.kind # "aik"
           \/ state.data.loaded_key_name # "sha256"
           \/ state.ek_cert.key # "Rsa")
       => state' = Idle(Some(now + 5000)) /\ panic' = "none"]_vars

\* C27: in InitDataReceived poll() moves to RequestEkCert{false} whatever
\* the payload is, and queues nothing.
C27_InitDataIgnored ==
    [][(MatchStep /\ state.tag = "InitDataReceived") =>
          /\ state' = RequestEkCert(FALSE)
          /\ requests' = requests
          /\ panic' = "none"]_vars

\* the response to /attest was consumed and the state is RequestEkCert{false}
C27_Witness ==
    /\ last.op = "poll"
    /\ last.from = "InitDataReceived"
    /\ state = RequestEkCert(FALSE)
    /\ requests = <<>>

\* C28: in Idle with a deadline the clock has not passed poll() changes
\* neither the state nor the queue; Idle is left only once the clock has
\* passed the deadline, and a request is queued only outside Idle.
C28_IdleWaits ==
    /\ [][(MatchStep /\ state.tag = "Idle" /\ \E d \in state.timeout : now <= d) =>
             state' = state /\ requests' = requests]_vars
    /\ [][(state.tag = "Idle" /\ state' # state) =>
             \E d \in state.timeout : now > d]_vars
    /\ [][Len(requests') > Len(requests) => state.tag # "Idle"]_vars
    /\ [](state.tag = "Idle" => requests = <<>>)

\* poll() ran in Idle while the clock was at most at the deadline and the
\* state is still Idle with that deadline
C28_Witness ==
    /\ last.op = "poll"
    /\ last.from = "Idle"
    /\ pc = 1
    /\ state.tag = "Idle"
    /\ state.timeout = Some(now)

\* C29: with an AikKey payload, a secret and a loadable RSA EK key,
\* prepare_aik_challenge returns what make_credential_rsa returns: the
\* credential result when the seed was generated, an error when it was not.
C29_CredentialReturned ==
    (/\ call.fn = "prepare_aik_challenge"
     /\ ret # None
     /\ call.arg.data.kind = "aik"
     /\ call.arg.secret_ok
     /\ call.arg.ek_cert.key = "Rsa") =>
        ret = Some(IF call.arg.seed_ok THEN "Ok" ELSE "Err")

\* C30: in RequestAik the ek_cert field holds the certificate that passed
\* verification in VerifyEkCertificate; a Content response moves that
\* certificate into VerifyAikStage1, and in RequestMetadata it moves the
\* key of the state into VerifyMetadata.
C30_CarriedAlong ==
    /\ [](state.tag = "RequestAik" =>
             \E c \in state.ek_cert : EkCertificatePasses([kind |-> "cert", cert |-> c]))
    /\ [][(state.tag = "VerifyEkCertificate" /\ state'.tag = "RequestAik") =>
             state'.ek_cert = Some(state.data.cert)]_vars
    /\ [][(state.tag = "RequestAik" /\ state'.tag = "RequestAik") =>
             state'.ek_cert = state.ek_cert]_vars
    /\ [][(/\ CallbackStep
           /\ state.tag = "RequestAik"
           /\ ReadyResult.ok
           /\ ReadyResult.code = "Content") =>
             /\ panic' = "none"
             /\ state'.tag = "VerifyAikStage1"
             /\ state'.ek_cert = Unwrap(state.ek_cert)]_vars
    /\ [][(/\ CallbackStep
           /\ state.tag = "RequestMetadata"
           /\ ReadyResult.ok
           /\ ReadyResult.code = "Content") =>
             /\ state'.tag = "VerifyMetadata"
             /\ state'.aik_pubkey = state.aik_pubkey]_vars

\* the certificate with the RSA key that cannot be loaded passed
\* verification and was carried into VerifyAikStage1
C30_Witness ==
    /\ last.op = "callback"
    /\ last.from = "RequestAik"
    /\ state.tag = "VerifyAikStage1"
    /\ state.ek_cert = Cert(TRUE, TRUE, "RsaInvalid", TRUE)

\* C31: no run from FobnailClient::new reaches RequestMetadata,
\* VerifyMetadata or StoreMetadata: no /metadata request is ever queued and
\* no file is ever written to /meta/.
C31_MetadataPhaseUnreachable ==
    /\ state.tag \notin {"RequestMetadata", "VerifyMetadata", "StoreMetadata"}
    /\ \A i \in 1..Len(requests) : requests[i].path # "/metadata"
    /\ \A i \in 1..Len(issued) : issued[i] # "/metadata"
    /\ store = {}

\* poll() ran in VerifyAikStage1 on an AIK that decodes, with an EK key that
\* loads, and ended in a panic in place of a transition
C31_Witness ==
    /\ last.op = "poll"
    /\ last.from = "VerifyAikStage1"
    /\ state.tag = "VerifyAikStage1"
    /\ state.data.kind = "aik"
    /\ state.ek_cert = GoodCert
    /\ panic # "none"

\* C32: within a cycle the requests are queued in the order /attest, /ek,
\* /aik, /metadata, each by the state it belongs to and with no request
\* outstanding; a request state is left forward only by a Content response
\* and VerifyEkCertificate only with a certificate that passes; Idle holds no
\* request and is left only to the default initial state, so the first
\* request of the next cycle is /attest.
C32_RequestOrder ==
    /\ [](\E k \in 0..Len(CycleOrder) : issued = SubSeq(CycleOrder, 1, k))
    /\ [](state.tag = "Idle" => requests = <<>> /\ issued = <<>>)
    /\ [][Len(requests') > Len(requests) =>
             /\ requests = <<>>
             /\ requests'[1].path = RequestPath(state.tag)
             /\ issued' = Append(issued, requests'[1].path)]_vars
    /\ [][(state.tag \in RequestStates /\ state'.tag \notin {state.tag, "Idle"}) =>
             /\ CallbackStep
             /\ ReadyResult.ok
             /\ ReadyResult.code = "Content"]_vars
    /\ [][(state.tag = "VerifyEkCertificate" /\ state'.tag = "RequestAik") =>
             EkCertificatePasses(state.data)]_vars
    /\ [][(state.tag = "Idle" /\ state' # state) => state' = StateDefault]_vars

\* a cycle failed and the next one queued /attest, /ek and /aik in turn
C32_Witness ==
    /\ state.tag = "RequestAik"
    /\ state.request_pending
    /\ issued = <<"/attest", "/ek", "/aik">>
    /\ Len(requests) = 1
    /\ requests[1].path = "/aik"
    /\ now > 0

\* C33: usb::init is called exactly once, by the 100th TIMER0 interrupt;
\* the handler never calls usb::usb_interrupt before usb::init has returned;
\* init() returns only with TIMER0_N at the sentinel u16::MAX, and TIMER0_N
\* never changes once it is there.
C33_UsbInitOnce ==
    /\ [](/\ pal.usb_inits <= 1
          /\ pal.usb_inits = 1 <=> pal.irqs >= USB_INIT_AFTER
          /\ pal.usb_inits = 1 => pal.init_at = USB_INIT_AFTER
          /\ ~pal.early_usb
          /\ pal.pc \notin {"init", "wait"} => pal.n = U16_MAX)
    /\ [][pal.n = U16_MAX => pal'.n = U16_MAX]_vars

\* init() has returned and the interrupt has been taken again since usb::init
C33_Witness ==
    /\ pal.pc = "main"
    /\ pal.irqs > USB_INIT_AFTER
    /\ pal.usb_inits = 1
    /\ pal.n = U16_MAX

\* C34: now - TIMER0_LAST never underflows, whatever the interleaving of
\* poll_usb with the TIMER0 interrupt.
C34_DelayNeverUnderflows == ~pal.underflow

====
